---- MODULE Spec2Model ----
(***************************************************************************)
(* Model of the agent task-orchestration engine                            *)
(* (app/agents/base_agent.py, app/agents/advanced_consumption_agent.py)    *)
(* and of the dynamic chart renderer (app/utils/dynamic_chart_generator.py)*)
(***************************************************************************)
EXTENDS Integers, Sequences, FiniteSets, TLC

\* ---------------------------------------------------------------- bounds
\* longest plan the LLM response carries
MaxPlanLen == 2

\* ---------------------------------------------------------------- values
\* Python values are modelled by tags; all of them are strings so that
\* results, parameters and error messages can share one dictionary.
NoneVal == "None"
EmptyList == "[]"
EmptyStr == "''"
EmptyDict == "{}"
Lit == "literal"
Data == "[Consumption, ...]"
Charts == "[chart_path, ...]"
Text == "analysis text"
Research == "{research_data}"
Message == "message text"
Coroutine == "<coroutine>"
ReportOk == "{markdown_path: md, pdf_path: pdf}"
ReportMdOnly == "{markdown_path: md, pdf_path: GenerateFailed}"
ReportNone == "{markdown_path: SaveFailed, pdf_path: GenerateFailed}"

ReportValues == {ReportOk, ReportMdOnly, ReportNone}

\* bool(v) is False
Falsy(v) == v \in {NoneVal, EmptyList, EmptyStr, EmptyDict}
IsStr(v) == v \in {EmptyStr, Text, Message, Lit}
IsDict(v) == v \in {EmptyDict, Research} \cup ReportValues

\* error messages, str(e)
ErrNotRegistered == "ValueError: tool not registered"
ErrNoAttribute == "AttributeError: object has no attribute"
ErrAttrName == "TypeError: attribute name must be string"
ErrArguments == "TypeError: unexpected or missing keyword argument"
ErrNotCallable == "TypeError: object is not callable"
ErrKeyError == "KeyError: result"
ErrExternal == "Exception: collaborator failed"
ErrConcat == "TypeError: can only concatenate str"
ErrMakedirs == "OSError: makedirs"
ErrBadArgument == "AttributeError: argument has no such attribute"

\* ---------------------------------------------------------------- inputs
UserIds == {"u1", "u2"}
\* request texts (analysis_needs); leibie, fenlei and fenbu stand for the
\* Chinese words for category, classification and distribution
Goals == {"compare amounts by leibie", "spending by fenlei", "fenbu of dining", "weekly trend"}
StartDate == "2024-01-01"
EndDate == "2024-01-31"

\* a Python dict as a function; {} is the function with the empty domain
EmptyParams == <<>>
DictSet(d, k, v) == [x \in (DOMAIN d) \cup {k} |-> IF x = k THEN v ELSE d[x]]
DictGet(d, k, default) == IF k \in DOMAIN d THEN d[k] ELSE default

\* a task record of a plan; has_params is FALSE when the record has no
\* 'tool_params' key, the id / tool are NoneVal when the key is absent
Task(i, t, hp, p) == [id |-> i, tool |-> t, has_params |-> hp, tool_params |-> p]

\* ---------------------------------------------------------------- tools
\* BaseAgent.tools after AdvancedConsumptionAgent._register_tools
RegisteredTools ==
    {"fetch_consumption_data", "filter_data", "generate_charts", "analyze_data",
     "generate_suggestions", "market_research", "generate_report"}

\* names that getattr(self, name) resolves to a bound method of the agent
AgentMethods == RegisteredTools \cup {"communicate_result"}

\* names that getattr(self, name) resolves to a non-callable attribute
AgentFields == {"memory", "tools"}

\* keyword parameters of each method: required and optional ones
Required(tool) ==
    CASE tool = "fetch_consumption_data" -> {"user_id", "start_date", "end_date"}
      [] tool = "filter_data" -> {"consumptions"}
      [] tool = "generate_charts" -> {"consumptions"}
      [] tool = "analyze_data" -> {"consumptions", "analysis_needs"}
      [] tool = "generate_report" ->
            {"analysis_result", "chart_paths", "user_id", "start_date", "end_date"}
      [] tool = "generate_suggestions" -> {"analysis_result"}
      [] tool = "market_research" -> {}
      [] tool = "communicate_result" -> {"result"}
      [] OTHER -> {}

Optional(tool) ==
    CASE tool = "filter_data" -> {"filters"}
      [] tool = "market_research" -> {"category"}
      [] OTHER -> {}

\* Python binds **kw to the signature: every required name is given and
\* no other name than the declared ones
SignatureOK(tool, kw) ==
    /\ Required(tool) \subseteq DOMAIN kw
    /\ DOMAIN kw \subseteq Required(tool) \cup Optional(tool)

\* outcomes of the collaborators a tool body depends on (database, LLM
\* gateway, matplotlib, file system)
ExtOutcomes(tool) ==
    CASE tool = "fetch_consumption_data" -> {"ok", "empty", "fail"}
      [] tool = "generate_report" -> {"ok", "mcp_fail", "md_fail", "mkdir_fail"}
      [] tool \in {"market_research", "communicate_result", "filter_data"} -> {"ok"}
      [] OTHER -> {"ok", "fail"}

\* the outcome of a call: the value it returns or the exception it
\* raises, the memory entries it appended, and what became of the report
Returned(v, m) == [ok |-> TRUE, value |-> v, mem |-> m, persist |-> "none"]
Raised(e) == [ok |-> FALSE, value |-> e, mem |-> <<>>, persist |-> "none"]

\* a for loop over v whose body reads Consumption attributes
IterableOfRecords(v) == v \in {EmptyList, Data, EmptyStr, EmptyDict}

fetch_consumption_data(kw, ext) ==
    IF ext = "fail" THEN Raised(ErrExternal)
    ELSE Returned(IF ext = "empty" THEN EmptyList ELSE Data, <<"fetch_data">>)

filter_data(kw, ext) ==
    IF Falsy(DictGet(kw, "filters", NoneVal)) THEN Returned(kw["consumptions"], <<>>)
    ELSE IF ~IterableOfRecords(kw["consumptions"]) THEN Raised(ErrBadArgument)
    ELSE Returned(IF kw["consumptions"] = Data THEN Data ELSE EmptyList, <<>>)

generate_charts(kw, ext) ==
    IF ~IterableOfRecords(kw["consumptions"]) THEN Raised(ErrBadArgument)
    ELSE IF ext = "fail" THEN Raised(ErrExternal)
    ELSE Returned(Charts, <<>>)

analyze_data(kw, ext) ==
    IF ~IterableOfRecords(kw["consumptions"]) THEN Raised(ErrBadArgument)
    ELSE IF ext = "fail" THEN Raised(ErrExternal)
    ELSE Returned(Text, <<>>)

generate_report(kw, ext) ==
    \* markdown_content += analysis_result or "..."
    IF ~Falsy(kw["analysis_result"]) /\ ~IsStr(kw["analysis_result"])
    THEN Raised(ErrConcat)
    \* os.makedirs(workspace_dir), outside the try
    ELSE IF ext = "mkdir_fail"
    THEN [Raised(ErrMakedirs) EXCEPT !.persist = "failed"]
    \* save_markdown_and_convert_to_pdf
    ELSE IF ext = "ok"
    THEN [Returned(ReportOk, <<>>) EXCEPT !.persist = "ok"]
    \* fall back to open(markdown_path, 'w')
    ELSE IF ext = "mcp_fail"
    THEN [Returned(ReportMdOnly, <<>>) EXCEPT !.persist = "ok"]
    ELSE [Returned(ReportNone, <<>>) EXCEPT !.persist = "failed"]

generate_suggestions(kw, ext) ==
    IF ext = "fail" THEN Raised(ErrExternal)
    ELSE Returned(Text, <<"generate_suggestions">>)

market_research(kw, ext) == Returned(Research, <<"market_research">>)

communicate_result(kw, ext) ==
    IF ~IsDict(kw["result"]) THEN Raised(ErrBadArgument)
    ELSE Returned(Message, <<"communicate_result">>)

\* the body of the method named tool, called with keyword arguments kw
MethodBody(tool, kw, ext) ==
    CASE tool = "fetch_consumption_data" -> fetch_consumption_data(kw, ext)
      [] tool = "filter_data" -> filter_data(kw, ext)
      [] tool = "generate_charts" -> generate_charts(kw, ext)
      [] tool = "analyze_data" -> analyze_data(kw, ext)
      [] tool = "generate_report" -> generate_report(kw, ext)
      [] tool = "generate_suggestions" -> generate_suggestions(kw, ext)
      [] tool = "market_research" -> market_research(kw, ext)
      [] tool = "communicate_result" -> communicate_result(kw, ext)

\* getattr(self, tool_name)(**tool_params), awaited for the async method
GetattrCall(tool_name, kw, ext) ==
    IF tool_name = NoneVal THEN Raised(ErrAttrName)
    ELSE IF tool_name \in AgentFields THEN Raised(ErrNotCallable)
    ELSE IF tool_name \notin AgentMethods THEN Raised(ErrNoAttribute)
    ELSE IF ~SignatureOK(tool_name, kw) THEN Raised(ErrArguments)
    ELSE MethodBody(tool_name, kw, ext)

\* BaseAgent.use_tool: looks the name up in the registry; the async
\* method is called without await and returns a coroutine object
use_tool(tool_name, kw, ext) ==
    IF tool_name \notin RegisteredTools THEN Raised(ErrNotRegistered)
    ELSE IF ~SignatureOK(tool_name, kw) THEN Raised(ErrArguments)
    ELSE IF tool_name = "fetch_consumption_data" THEN Returned(Coroutine, <<>>)
    ELSE MethodBody(tool_name, kw, ext)

\* BaseAgent._process_task for a task whose tool is empty: the description
\* is sent to the LLM gateway
ProcessTask(task, ext) ==
    IF ext = "fail" THEN Raised(ErrExternal) ELSE Returned(Text, <<>>)

\* ---------------------------------------------------------------- plans
\* the plan analyze_by_custom_needs builds when plan() gave nothing
DefaultPlan(uid, start, end, needs) ==
    << Task("1", "fetch_consumption_data", TRUE,
            [k \in {"user_id", "start_date", "end_date"} |->
                CASE k = "user_id" -> uid [] k = "start_date" -> start [] OTHER -> end]),
       Task("2", "generate_charts", TRUE, EmptyParams),
       Task("3", "analyze_data", TRUE, [k \in {"analysis_needs"} |-> needs]),
       Task("4", "generate_report", TRUE,
            [k \in {"user_id", "start_date", "end_date"} |->
                CASE k = "user_id" -> uid [] k = "start_date" -> start [] OTHER -> end]) >>

\* task records an LLM response can carry
TaskPool ==
    { Task("1", "fetch_consumption_data", TRUE,
           [k \in {"user_id", "start_date", "end_date"} |-> Lit]),
      Task("2", "generate_charts", TRUE, EmptyParams),
      Task("2", "generate_charts", FALSE, EmptyParams),
      Task("3", "analyze_data", TRUE, [k \in {"analysis_needs"} |-> Lit]),
      Task("4", "generate_report", TRUE,
           [k \in {"user_id", "start_date", "end_date"} |-> Lit]),
      Task("1", "market_research", TRUE, EmptyParams),
      Task("5", "no_such_tool", TRUE, EmptyParams),
      Task("6", "communicate_result", TRUE, [k \in {"result"} |-> EmptyDict]),
      Task(NoneVal, NoneVal, FALSE, EmptyParams) }

PlanPool == UNION {[1..n -> TaskPool] : n \in 0..MaxPlanLen}

\* what json.loads makes of the LLM response (or that it cannot), and
\* "gateway_error" when llm.invoke itself raises
ResponseShapes ==
    {"unparsable", "array", "array_of_scalars", "object_tasks", "scalar", "null",
     "gateway_error"}

UnparsableTexts == {"not json", "Here is the plan: [...]"}

\* the response as an array of task records
ArrayResponse(t) == [shape |-> "array", text |-> "[...]", tasks |-> t]

Responses ==
    {ArrayResponse(t) : t \in PlanPool}
    \cup {[shape |-> "object_tasks", text |-> "{tasks: [...]}", tasks |-> t] : t \in PlanPool}
    \cup {[shape |-> "unparsable", text |-> x, tasks |-> <<>>] : x \in UnparsableTexts}
    \cup {[shape |-> sh, text |-> sh, tasks |-> <<>>] :
            sh \in ResponseShapes \ {"array", "object_tasks", "unparsable"}}

\* variant: on a parse failure plan() answers with the one-task default
\* plan of BaseAgent.plan
PlanOfBaseDefault(resp) ==
    CASE resp.shape = "unparsable" ->
            [type |-> "list", tasks |-> <<Task("1", NoneVal, TRUE, EmptyParams)>>]
      [] resp.shape = "array" -> [type |-> "list", tasks |-> resp.tasks]
      [] resp.shape = "null" -> [type |-> "None", tasks |-> <<>>]
      \* a dict is returned as it is, its 'tasks' array inside
      [] resp.shape = "object_tasks" -> [type |-> "object_tasks", tasks |-> resp.tasks]
      [] OTHER -> [type |-> resp.shape, tasks |-> <<>>]

\* AdvancedConsumptionAgent.plan: the type and the content of what it returns
PlanOf(resp) ==
    CASE resp.shape = "unparsable" -> [type |-> "list", tasks |-> <<>>]
      [] resp.shape = "array" -> [type |-> "list", tasks |-> resp.tasks]
      [] resp.shape = "null" -> [type |-> "None", tasks |-> <<>>]
      \* a dict is returned as it is, its 'tasks' array inside
      [] resp.shape = "object_tasks" -> [type |-> "object_tasks", tasks |-> resp.tasks]
      [] OTHER -> [type |-> resp.shape, tasks |-> <<>>]

\* the text of an LLM response: a JSON array of task records, or a JSON
\* object holding it under 'tasks', with text before and after it
ResponseText(pre, body, t, post) == [prefix |-> pre, body |-> body, tasks |-> t, suffix |-> post]
Prefixes == {"", "Here is the plan: "}
Suffixes == {"", " Hope this helps."}
ResponseTexts ==
    {ResponseText(pre, body, t, post) :
        pre \in Prefixes, body \in {"array", "object_tasks"}, t \in PlanPool,
        post \in Suffixes}

Wrapped(text) == text.prefix # "" \/ text.suffix # ""

\* AdvancedConsumptionAgent.plan, lines 183-189: json.loads on the whole
\* response; text around the JSON value is a JSONDecodeError
AdvancedPlan(text) ==
    IF Wrapped(text)
    THEN PlanOf([shape |-> "unparsable", text |-> "Here is the plan: [...]", tasks |-> <<>>])
    ELSE PlanOf([shape |-> text.body, text |-> "[...]", tasks |-> text.tasks])

\* the except branch of BaseAgent.plan, lines 175-185
BaseDefaultPlan == <<Task("1", NoneVal, TRUE, EmptyParams)>>

\* BaseAgent.plan, lines 160-185: the text from the first '{' to the last
\* '}' is parsed. Of an array that cut drops the brackets: one record is
\* left as an object (returned as [plan]), two records are not JSON, and
\* an empty array has no brace, so the text is parsed whole
BasePlan(text) ==
    IF text.body = "object_tasks" THEN [type |-> "list", tasks |-> text.tasks]
    ELSE IF Len(text.tasks) = 1 THEN [type |-> "list", tasks |-> text.tasks]
    ELSE IF Len(text.tasks) = 0 /\ ~Wrapped(text) THEN [type |-> "list", tasks |-> <<>>]
    ELSE [type |-> "list", tasks |-> BaseDefaultPlan]

NoParse ==
    [made |-> FALSE, agent |-> "none", text |-> ResponseText("", "array", <<>>, ""),
     result |-> [type |-> "None", tasks |-> <<>>]]

\* `not plan`
PlanIsFalsy(p) == p.type = "None" \/ (p.type = "list" /\ p.tasks = <<>>)

\* ---------------------------------------------------------------- renderer
\* DynamicChartGenerator: a file of output_dir is <<file name, time stamp>>;
\* the stamp is 0 for a name that carries none.
MaxClock == 2
MaxCalls == 1

\* the records handed to the renderer: none, some, or some whose category
\* sums are negative (plt.pie refuses negative wedge sizes)
Datasets == {"empty", "records", "negative"}

\* chart code: which chart_filename assignment its text holds ("literal"
\* is the only one the pattern of _extract_chart_filename matches), the
\* file name it assigns, what running it does, and whether it draws a pie
ChartCode(o, a, b, r, pie) == [origin |-> o, assign |-> a, base |-> b, run |-> r, pie |-> pie]

\* file names a literal chart_filename assignment can carry: plain ones,
\* one that climbs out of output_dir and an absolute one
LiteralNames == {"custom.png", "custom", "custom.xyz", "../escape.png", "/abs/escape.png"}

\* os.path.join(output_dir, name): the directory the path leads to
DirOf(name) ==
    CASE name[1] = "/abs/escape.png" -> "/abs"
      [] name[1] = "../escape.png" -> "parent of output_dir"
      [] OTHER -> "output_dir"

InOutputDir(name) == DirOf(name) = "output_dir"

LlmCodes ==
    {ChartCode("llm", "literal", b, r, FALSE) :
        b \in LiteralNames, r \in {"raise", "save", "nosave"}}
    \cup {ChartCode("llm", "fstring", "chart_llm.png", r, FALSE) : r \in {"raise", "save", "nosave"}}
    \cup {ChartCode("llm", "none", "", r, FALSE) : r \in {"raise", "save", "nosave"}}

\* _get_default_chart_code
HasCategoryKeyword(needs) == needs \in {"compare amounts by leibie", "spending by fenlei"}

\* variant: a distribution keyword selects the category template as well
DefaultChartCodeDistribution(needs) ==
    IF HasCategoryKeyword(needs) \/ needs = "fenbu of dining"
    THEN ChartCode("template", "fstring", "chart_category_distribution.png", "save", TRUE)
    ELSE ChartCode("template", "fstring", "chart_spending_trend.png", "save", FALSE)

DefaultChartCode(needs) ==
    IF HasCategoryKeyword(needs)
    THEN ChartCode("template", "fstring", "chart_category_distribution.png", "save", TRUE)
    ELSE ChartCode("template", "fstring", "chart_spending_trend.png", "save", FALSE)

\* matplotlib's savefig: a name without extension gets ".png" appended, an
\* unknown extension is refused
BadFormat(name) == name[1] = "custom.xyz"
SavedAs(name) == IF name[1] = "custom" THEN <<"custom.png", name[2]>> ELSE name

\* _extract_chart_filename
ExtractChartFilename(code, now) ==
    IF code.assign = "literal" THEN <<code.base, 0>> ELSE <<"dynamic_chart.png", now>>

\* exec(code, env): the files afterwards, the paths it wrote (new or
\* replaced) and whether it raised
ExecCode(code, chart_filename, consumptions, fs, now) ==
    LET own == CASE code.assign = "none" -> chart_filename
                 [] code.assign = "literal" -> <<code.base, 0>>
                 [] OTHER -> <<code.base, now>>
    IN  IF code.run = "raise" THEN [raised |-> TRUE, files |-> fs, wrote |-> {}]
        ELSE IF code.pie /\ consumptions = "negative"
        THEN [raised |-> TRUE, files |-> fs, wrote |-> {}]
        ELSE IF code.run = "nosave" THEN [raised |-> FALSE, files |-> fs, wrote |-> {}]
        ELSE IF BadFormat(own) THEN [raised |-> TRUE, files |-> fs, wrote |-> {}]
        ELSE [raised |-> FALSE, files |-> fs \cup {SavedAs(own)}, wrote |-> {SavedAs(own)}]

Outcome(r, p, fs, ls, w) ==
    [raised |-> r, path |-> p, files |-> fs, layers |-> ls, wrote |-> w]
NoPath == <<"", 0>>

\* execute_chart_code, lines 147-208
execute_chart_code(code, consumptions, fs, now) ==
    \* _prepare_safe_execution_environment: df['transaction_time'] of a
    \* frame without columns
    IF consumptions = "empty" THEN Outcome(TRUE, NoPath, fs, <<>>, {})
    ELSE
    LET chart_filename == ExtractChartFilename(code, now)
        ran == ExecCode(code, chart_filename, consumptions, fs, now)
        autosave == ~ran.raised /\ chart_filename \notin ran.files
        saved == autosave /\ ~BadFormat(chart_filename)
        fs2 == IF saved THEN ran.files \cup {SavedAs(chart_filename)} ELSE ran.files
        w2 == IF saved THEN ran.wrote \cup {SavedAs(chart_filename)} ELSE ran.wrote
        error_occurred == ran.raised \/ (autosave /\ BadFormat(chart_filename))
        ls2 == <<code.origin>> \o (IF autosave /\ ~error_occurred THEN <<"autosave">> ELSE <<>>)
    IN  \* str(e) after the except block has unbound e
        IF error_occurred THEN Outcome(TRUE, NoPath, fs2, ls2, w2)
        ELSE IF chart_filename \notin fs2
        THEN Outcome(FALSE, chart_filename, fs2 \cup {SavedAs(chart_filename)},
                     ls2 \o <<"placeholder">>, w2 \cup {SavedAs(chart_filename)})
        ELSE Outcome(FALSE, chart_filename, fs2, ls2, w2)

\* _prepare_safe_execution_environment: the names of safe_env and of its
\* '__builtins__' dictionary
SafeEnvNames ==
    {"os", "plt", "np", "pd", "datetime", "consumptions", "df", "output_dir",
     "chart_filename", "plt.figure", "plt.savefig", "plt.close", "plt.tight_layout"}

SafeBuiltins ==
    {"abs", "all", "any", "__import__", "bool", "dict", "float", "int", "len", "list",
     "max", "min", "range", "round", "sorted", "str", "sum", "tuple", "zip", "print",
     "Exception", "ValueError", "KeyError", "TypeError"}

\* what the object bound to a name lets code do outside output_dir: the os
\* module removes and writes files anywhere and starts processes,
\* __import__ loads any module, pandas reads paths and URLs, matplotlib
\* and numpy save to and load from any path
Grants(name) ==
    CASE name = "os" -> {"filesystem", "process"}
      [] name = "__import__" -> {"import"}
      [] name = "pd" -> {"filesystem", "network"}
      [] name \in {"np", "plt", "plt.savefig"} -> {"filesystem"}
      [] OTHER -> {}

\* the namespace exec(code, env) runs the code in; none when building it
\* raised (empty dataset)
ExecNamespace(consumptions) ==
    IF consumptions = "empty" THEN {} ELSE SafeEnvNames \cup SafeBuiltins

\* _create_empty_data_chart
CreateEmptyDataChart(fs, now) ==
    Outcome(FALSE, <<"chart_no_data.png", now>>, fs \cup {<<"chart_no_data.png", now>>},
            <<"no_data">>, {<<"chart_no_data.png", now>>})

\* what stands for the LLM of the generator: none (langchain missing or no
\* model), one whose call raises, or one that answers with chart code
NoCode == ChartCode("none", "none", "", "nosave", FALSE)
Llms ==
    {[state |-> st, code |-> NoCode] : st \in {"unavailable", "raises"}}
    \cup {[state |-> "answers", code |-> c] : c \in LlmCodes}

\* variant: the canned template is used whatever the LLM answered
ChartCodeForTemplateOnly(needs, llm) == DefaultChartCode(needs)

\* the code generate_charts_by_needs hands to execute_chart_code
ChartCodeFor(needs, llm) ==
    IF llm.state = "answers" THEN llm.code ELSE DefaultChartCode(needs)

\* variant: no guard for the empty dataset
generate_charts_by_needs_unguarded(consumptions, needs, llm, fs, now) ==
    execute_chart_code(ChartCodeFor(needs, llm), consumptions, fs, now)

\* generate_charts_by_needs, lines 322-363
generate_charts_by_needs(consumptions, needs, llm, fs, now) ==
    IF consumptions = "empty" THEN CreateEmptyDataChart(fs, now)
    ELSE execute_chart_code(ChartCodeFor(needs, llm), consumptions, fs, now)

\* ---------------------------------------------------------------- output streams
\* how executed chart code can write text: print() to sys.stdout, a
\* warning or traceback to sys.stderr, os.write on a file descriptor (os
\* is a name of the namespace)
WriteKinds == {"stdout", "stderr", "fd"}

\* what contextlib.redirect_stdout / redirect_stderr catch: writes through
\* sys.stdout and sys.stderr
Redirected == {"stdout", "stderr"}

Streams(w, c, p) == [written |-> w, captured |-> c, process |-> p]
NoStreams == Streams({}, {}, {})

\* execute_chart_code, lines 166-195: the code's writes through sys.stdout
\* and sys.stderr land in the two StringIO objects during exec; after the
\* try block a non-empty StringIO is printed to the process's stdout
\* (lines 192-195); a write on a descriptor goes past the redirection
CodeOutput(consumptions, prints) ==
    IF consumptions = "empty" THEN NoStreams
    ELSE Streams(prints, prints \cap Redirected,
                 (prints \ Redirected) \cup (prints \cap Redirected))

\* ---------------------------------------------------------------- requests
\* requests served at the same time, each by its own call of
\* analyze_by_custom_needs
MaxInvocations == 2
Invocations == 1..MaxInvocations

\* a Python object: what it is, the request that created it, its content
Obj(kind, by, content) == [kind |-> kind, by |-> by, content |-> content]

\* a local variable that is not bound yet
NoRef == 0

\* the local variables of a request that has not arrived yet
IdleFrame ==
    [pc |-> "idle", agent |-> NoRef, plan |-> NoRef, ctx |-> NoRef, ledger |-> NoRef,
     idx |-> 1]

\* what plan() answers in these requests; <<>> is a response that does not
\* parse, answered by the fallback plan
ConcPlans ==
    { <<>>,
      << Task("1", "fetch_consumption_data", TRUE,
              [k \in {"user_id", "start_date", "end_date"} |-> Lit]),
         Task("2", "generate_charts", TRUE, EmptyParams) >>,
      << Task("1", "market_research", TRUE, EmptyParams) >> }

\* in these requests the database answers or fails and the other
\* collaborators answer
ConcOutcomes(tool) ==
    IF tool = "fetch_consumption_data" THEN ExtOutcomes(tool) \cap {"ok", "fail"}
    ELSE ExtOutcomes(tool) \cap {"ok"}

\* variant: the results dict is kept where all requests find it (the first
\* one created is used by every later request)
ContextRefShared(h, i) ==
    IF \E r \in 1..Len(h) : h[r].kind = "context"
    THEN CHOOSE r \in 1..Len(h) : h[r].kind = "context"
    ELSE Len(h) + 1

\* `intermediate_results = {}`, line 612: the name is bound to a dict that
\* did not exist before
ContextRef(h, i) == Len(h) + 1

\* the entries of a results dict without the mark of who recorded them
Entries(c) == [id \in DOMAIN c |-> c[id].entry]

\* ---------------------------------------------------------------- event loop
\* the tools whose body calls invoke_llm (lines 300 and 447)
LlmTools == {"analyze_data", "generate_suggestions"}

\* the tools of the plans these requests run: the fallback plan's, and
\* plans of one task
LoopPlans ==
    { [k \in 1..4 |-> DefaultPlan("u1", StartDate, EndDate, "weekly trend")[k].tool],
      <<"analyze_data">>, <<"fetch_consumption_data">>, <<"market_research">> }

\* no request runs: the thread of the loop is free (owner 0)
IdleLoop ==
    [owner |-> 0,
     pos |-> [i \in Invocations |-> "idle"],
     idx |-> [i \in Invocations |-> 1],
     plan |-> [i \in Invocations |-> <<>>]]

\* ---------------------------------------------------------------- prompts
\* a prompt template: whether its text is empty and the names of the
\* replacement fields `{name}` in it
Template(e, names) == [empty |-> e, names |-> names]

\* the keyword arguments AdvancedConsumptionAgent.plan passes to format_prompt
PlannerNames == {"analysis_needs", "start_date", "end_date", "tools_info"}

\* self.prompts after AdvancedConsumptionAgent._init_prompt_templates
ConstructedPrompts ==
    [k \in {"custom_analysis", "task_planning", "data_filtering"} |->
        CASE k = "custom_analysis" -> Template(FALSE, {"analysis_needs", "consumption_data"})
          [] k = "task_planning" -> Template(FALSE, PlannerNames)
          [] OTHER -> Template(FALSE, {"analysis_needs"})]

\* templates and keys given to add_prompt_template, keys and keyword
\* arguments given to format_prompt
TemplatePool ==
    {Template(TRUE, {}), Template(FALSE, {}), Template(FALSE, {"analysis_needs"}),
     Template(FALSE, {"analysis_needs", "consumption_data"})}
AddKeys == {"task_planning", "extra"}
FormatKeys == {"task_planning", "custom_analysis", "extra", "never_registered"}
SuppliedSets == {{}, {"analysis_needs"}, {"analysis_needs", "consumption_data"}, PlannerNames}

\* template.format(**kwargs): the text, or KeyError for a field without argument
StrFormat(template, supplied) ==
    IF template.names \subseteq supplied THEN "str" ELSE "KeyError"

\* variant: an unknown key raises
format_prompt_strict(prs, key, supplied) ==
    IF key \notin DOMAIN prs THEN "KeyError"
    ELSE IF prs[key].empty THEN "None"
    ELSE StrFormat(prs[key], supplied)

\* BaseAgent.format_prompt, lines 77-91: what it returns ("str", "None") or raises
format_prompt(prs, key, supplied) ==
    IF key \in DOMAIN prs /\ ~prs[key].empty THEN StrFormat(prs[key], supplied)
    ELSE "None"

NoFormatCall ==
    [caller |-> "none", key |-> "", supplied |-> {}, registered |-> FALSE,
     template |-> Template(TRUE, {}), result |-> "None"]

FormatCall(caller, prs, key, supplied) ==
    [caller |-> caller, key |-> key, supplied |-> supplied,
     registered |-> key \in DOMAIN prs,
     template |-> IF key \in DOMAIN prs THEN prs[key] ELSE Template(TRUE, {}),
     result |-> format_prompt(prs, key, supplied)]

\* ---------------------------------------------------------------- memory
\* entries add_memory is given, and how many of them a process appends
MaxMemory == 2
MemoryEntries == {"fetch_data", "market_research"}

\* the memory file: absent, or the list json.dump wrote
NoFile == [exists |-> FALSE, content |-> <<>>]
SavedFile(mem) == [exists |-> TRUE, content |-> mem]

\* a file an earlier process saved
OldFile == SavedFile(<<"generate_suggestions">>)

\* self.memory[-limit:] for limit > 0
LastN(mem, limit) ==
    IF limit >= Len(mem) THEN mem ELSE SubSeq(mem, Len(mem) - limit + 1, Len(mem))

\* BaseAgent.get_memory, lines 41-53; has_limit is FALSE for limit=None
get_memory(mem, has_limit, limit) ==
    IF has_limit /\ limit # 0 THEN LastN(mem, limit) ELSE mem

\* BaseAgent.load_memory, lines 268-277
load_memory(mem, file) == IF file.exists THEN file.content ELSE mem

NoMemoryCall == [made |-> FALSE, has_limit |-> FALSE, limit |-> 0, before |-> <<>>, result |-> <<>>]

\* ---------------------------------------------------------------- state
VARIABLES
    executor,               \* "custom": analyze_by_custom_needs, "base": execute_plan
    user_id, analysis_needs,\* arguments of the orchestration call
    response,               \* what the LLM gateway answered to the planning prompt
    pc,                     \* "start", "loop", "done" (returned) or "raised"
    plan,                   \* the plan list object (its task dicts are mutable)
    plan_type,              \* Python type of the object plan() returned
    plan0,                  \* the plan as it was when the loop was entered
    idx,                    \* position of the for loop, 1-based
    intermediate_results,   \* task id -> {success, result | error}
    status,                 \* per position: PENDING, SUCCEEDED or FAILED
    final_result,           \* <<>> until the call returns, then <<ledger>>
    memory,                 \* BaseAgent.memory, the action tags appended
    raise_cause,            \* why the call raised to its caller
    overwritten,            \* an entry of intermediate_results was replaced
    persist_failed,         \* a generate_report call could not write the report
    subst_raised,           \* parameter substitution raised
    last_kw,                \* keyword arguments of the latest tool call
    heap,                   \* the objects concurrent requests have created, by reference
    frames,                 \* per concurrent request: its position and local variables
    files,                  \* the chart files on disk, those of output_dir and others
    clock,                  \* datetime.now(), to the second
    calls,                  \* render calls made so far
    r_entry,                \* latest render call: "by_needs", "execute" or "none"
    r_cons, r_needs, r_llm, \* its dataset, request text and LLM
    r_code,                 \* the chart code it executed, NoCode if none
    r_before,               \* the files before it
    r_out,                  \* its outcome
    r_env,                  \* the names of the namespace its code ran in
    r_pc,                   \* "idle"; "exec" / "exec_body" while exec(code, env) runs
    artifact_log,           \* per artifact-producing call: its kind and the paths it wrote
    prompts,                \* BaseAgent.prompts: template key -> template
    fmt_call,               \* the latest format_prompt call and what came of it
    mem_file,               \* the file save_memory / load_memory work on
    mem_call,               \* the latest get_memory call and what it returned
    appended,               \* every entry add_memory has appended in this process
    streams,                \* what the chart code of the latest call wrote, and where it went
    parsed,                 \* the latest call of a plan function on a response text
    evloop                  \* the event loop: the request its thread runs, and where each request is

runVars ==
    <<executor, user_id, analysis_needs, response, pc, plan, plan_type, plan0, idx,
      intermediate_results, status, final_result, memory, raise_cause, overwritten,
      persist_failed, subst_raised, last_kw>>

concVars == <<heap, frames>>

\* the variables of a run but the memory
runRest ==
    <<executor, user_id, analysis_needs, response, pc, plan, plan_type, plan0, idx,
      intermediate_results, status, final_result, raise_cause, overwritten,
      persist_failed, subst_raised, last_kw>>

promptVars == <<prompts, fmt_call>>

memVars == <<mem_file, mem_call, appended>>

storeVars == <<promptVars, memVars, streams, parsed, evloop>>

orchVars == <<runVars, concVars, storeVars>>

renderVars ==
    <<files, clock, calls, r_entry, r_cons, r_needs, r_llm, r_code, r_before, r_out,
      r_env, r_pc, artifact_log>>

vars == <<orchVars, renderVars>>

NoResponse == [shape |-> "none", text |-> "", tasks |-> <<>>]

\* the state before the orchestration call
OrchStart ==
    /\ response = NoResponse
    /\ pc = "start"
    /\ plan = <<>>
    /\ plan_type = "None"
    /\ plan0 = <<>>
    /\ idx = 1
    /\ intermediate_results = <<>>
    /\ status = <<>>
    /\ final_result = <<>>
    /\ memory = <<>>
    /\ raise_cause = "none"
    /\ overwritten = FALSE
    /\ persist_failed = FALSE
    /\ subst_raised = FALSE
    /\ last_kw = <<>>
    /\ heap = <<>>
    /\ frames = [i \in Invocations |-> IdleFrame]
    /\ prompts = ConstructedPrompts
    /\ fmt_call = NoFormatCall
    /\ mem_call = NoMemoryCall
    /\ appended = <<>>
    /\ streams = NoStreams
    /\ parsed = NoParse
    /\ evloop = IdleLoop

\* the state before any render call
RenderStart ==
    /\ clock = 1
    /\ calls = 0
    /\ r_entry = "none"
    /\ r_cons = "empty"
    /\ r_needs = ""
    /\ r_llm = [state |-> "unavailable", code |-> NoCode]
    /\ r_code = NoCode
    /\ r_before = {}
    /\ r_out = Outcome(FALSE, NoPath, {}, <<>>, {})
    /\ r_env = {}
    /\ r_pc = "idle"
    /\ artifact_log = <<>>

Init ==
    /\ executor \in {"custom", "base"}
    /\ user_id \in UserIds
    /\ analysis_needs \in Goals
    /\ OrchStart
    /\ mem_file = NoFile
    /\ files = {}
    /\ RenderStart

\* the renderer starts on an output_dir that is empty or holds a chart an
\* earlier process left
InitRender ==
    /\ executor = "custom"
    /\ user_id = "u1"
    /\ analysis_needs = "weekly trend"
    /\ OrchStart
    /\ mem_file = NoFile
    /\ files \in {{}, {<<"custom.png", 0>>}}
    /\ RenderStart

\* entries of intermediate_results
SuccessEntry(v) == [success |-> TRUE, result |-> v]
FailureEntry(e) == [success |-> FALSE, error |-> e]
EntryOf(out) == IF out.ok THEN SuccessEntry(out.value) ELSE FailureEntry(out.value)

\* intermediate_results.get(id, {}).get('result', default)
ResultOf(ir, id, default) ==
    IF id \in DOMAIN ir /\ "result" \in DOMAIN ir[id] THEN ir[id].result ELSE default

\* variant: the earlier result is indexed, intermediate_results[id]['result']
StrictResultOf(ir, id) ==
    IF id \in DOMAIN ir /\ "result" \in DOMAIN ir[id]
    THEN [ok |-> TRUE, v |-> ir[id].result] ELSE [ok |-> FALSE, v |-> NoneVal]

SubstituteStrict(task_id, tool_params, ir) ==
    CASE task_id \in {"2", "3"} ->
            [ok |-> StrictResultOf(ir, "1").ok,
             params |-> DictSet(tool_params, "consumptions", StrictResultOf(ir, "1").v)]
      [] task_id = "4" ->
            [ok |-> StrictResultOf(ir, "3").ok /\ StrictResultOf(ir, "2").ok,
             params |-> DictSet(DictSet(tool_params, "analysis_result",
                                        StrictResultOf(ir, "3").v),
                                "chart_paths", StrictResultOf(ir, "2").v)]
      [] OTHER -> [ok |-> TRUE, params |-> tool_params]

\* the parameters after "adjust the parameters by task id" (lines 624-635)
Substitute(task_id, tool_params, ir) ==
    CASE task_id = "2" ->
            [ok |-> TRUE,
             params |-> DictSet(tool_params, "consumptions", ResultOf(ir, "1", EmptyList))]
      [] task_id = "3" ->
            [ok |-> TRUE,
             params |-> DictSet(tool_params, "consumptions", ResultOf(ir, "1", EmptyList))]
      [] task_id = "4" ->
            [ok |-> TRUE,
             params |-> DictSet(DictSet(tool_params, "analysis_result",
                                        ResultOf(ir, "3", EmptyStr)),
                                "chart_paths", ResultOf(ir, "2", EmptyList))]
      [] OTHER -> [ok |-> TRUE, params |-> tool_params]

Pending(n) == [i \in 1..n |-> "PENDING"]

\* variant: a failed task ends the loop
LoopAfterBreak(i, n, out) == [pc |-> "loop", idx |-> IF out.ok THEN i + 1 ELSE n + 1]

\* variant: a report that could not be written is raised to the caller
LoopAfterPersistRaises(i, n, out) ==
    [pc |-> IF out.persist = "failed" THEN "raised" ELSE "loop", idx |-> i + 1]

\* where control goes after the body of iteration i of n: the except
\* clause records whatever the call raised and the for loop goes on
LoopAfter(i, n, out) == [pc |-> "loop", idx |-> i + 1]

\* analyze_by_custom_needs, lines 571-612: plan() and the default plan
PlanStep ==
    /\ pc = "start" /\ executor = "custom"
    /\ \E resp \in Responses :
        /\ response' = resp
        /\ IF resp.shape = "gateway_error"
           THEN /\ pc' = "raised"
                /\ raise_cause' = "llm_gateway"
                /\ UNCHANGED <<plan, plan_type, plan0, status>>
           ELSE LET p == PlanOf(resp)
                    q == IF PlanIsFalsy(p)
                         THEN [type |-> "list",
                               tasks |-> DefaultPlan(user_id, StartDate, EndDate,
                                                     analysis_needs)]
                         ELSE p
                IN /\ plan' = q.tasks
                   /\ plan_type' = q.type
                   /\ plan0' = q.tasks
                   /\ status' = Pending(Len(q.tasks))
                   /\ pc' = "loop"
                   /\ UNCHANGED raise_cause
    /\ UNCHANGED <<renderVars, concVars, storeVars>>
    /\ UNCHANGED <<executor, user_id, analysis_needs, idx, intermediate_results,
                   final_result, memory, overwritten, persist_failed, subst_raised,
                   last_kw>>

\* BaseAgent.execute_plan is called with a plan, lines 187-197
ExecutePlanCall ==
    /\ pc = "start" /\ executor = "base"
    /\ \E p \in PlanPool \cup {DefaultPlan(user_id, StartDate, EndDate, analysis_needs)} :
        /\ plan' = p
        /\ plan0' = p
        /\ status' = Pending(Len(p))
    /\ plan_type' = "list"
    /\ pc' = "loop"
    /\ UNCHANGED <<renderVars, concVars, storeVars>>
    /\ UNCHANGED <<executor, user_id, analysis_needs, response, idx,
                   intermediate_results, final_result, memory, raise_cause,
                   overwritten, persist_failed, subst_raised, last_kw>>

\* `for task in plan` / task.get('id') on something that is not a list of
\* dicts, lines 615-616 (outside the try)
IterateRaise ==
    /\ pc = "loop" /\ executor = "custom"
    /\ plan_type # "list"
    /\ pc' = "raised"
    /\ raise_cause' = "plan_shape"
    /\ UNCHANGED <<renderVars, concVars, storeVars>>
    /\ UNCHANGED <<executor, user_id, analysis_needs, response, plan, plan_type, plan0,
                   idx, intermediate_results, status, final_result, memory,
                   overwritten, persist_failed, subst_raised, last_kw>>

\* one iteration of the loop of analyze_by_custom_needs, lines 615-657
RunTask ==
    /\ pc = "loop" /\ executor = "custom"
    /\ plan_type = "list" /\ idx <= Len(plan)
    /\ LET task == plan[idx]
           task_id == task.id
           tool_name == task.tool
           tool_params == task.tool_params
           sub == Substitute(task_id, tool_params, intermediate_results)
       IN \E ext \in ExtOutcomes(tool_name) :
            LET out == IF sub.ok THEN GetattrCall(tool_name, sub.params, ext)
                       ELSE Raised(ErrKeyError)
            IN /\ plan' = IF task.has_params /\ sub.ok
                          THEN [plan EXCEPT ![idx].tool_params = sub.params]
                          ELSE plan
               /\ intermediate_results' =
                      DictSet(intermediate_results, task_id, EntryOf(out))
               /\ overwritten' = (overwritten \/ task_id \in DOMAIN intermediate_results)
               /\ status' = [status EXCEPT ![idx] = IF out.ok THEN "SUCCEEDED" ELSE "FAILED"]
               /\ memory' = memory \o out.mem
               /\ persist_failed' = (persist_failed \/ out.persist = "failed")
               /\ subst_raised' = (subst_raised \/ ~sub.ok)
               /\ last_kw' = IF sub.ok THEN sub.params ELSE last_kw
               /\ pc' = LoopAfter(idx, Len(plan), out).pc
               /\ idx' = LoopAfter(idx, Len(plan), out).idx
               /\ raise_cause' = IF LoopAfter(idx, Len(plan), out).pc = "raised"
                                 THEN "task_failure" ELSE raise_cause
    /\ UNCHANGED <<renderVars, concVars, storeVars>>
    /\ UNCHANGED <<executor, user_id, analysis_needs, response, plan_type, plan0,
                   final_result>>

\* variant: the ledger as first assembled at lines 660-669, report_paths
\* None unless task "4" left a non-empty dict
ReportPathsOrNone(ir) ==
    IF IsDict(ResultOf(ir, "4", NoneVal)) /\ ~Falsy(ResultOf(ir, "4", NoneVal))
    THEN ResultOf(ir, "4", NoneVal) ELSE NoneVal

\* the artifacts part of the ledger, lines 672-676
ReportPaths(ir) == ResultOf(ir, "4", EmptyDict)

\* analyze_by_custom_needs, lines 659-678
Return ==
    /\ pc = "loop" /\ executor = "custom"
    /\ plan_type = "list" /\ idx > Len(plan)
    /\ final_result' = << [plan |-> plan,
                           execution_results |-> intermediate_results,
                           report_paths |-> ReportPaths(intermediate_results)] >>
    /\ pc' = "done"
    /\ UNCHANGED <<renderVars, concVars, storeVars>>
    /\ UNCHANGED <<executor, user_id, analysis_needs, response, plan, plan_type, plan0,
                   idx, intermediate_results, status, memory, raise_cause, overwritten,
                   persist_failed, subst_raised, last_kw>>

\* one iteration of the loop of BaseAgent.execute_plan, lines 199-227
ExecuteTask ==
    /\ pc = "loop" /\ executor = "base"
    /\ idx <= Len(plan)
    /\ LET task == plan[idx]
           task_id == IF task.id = NoneVal THEN "unknown" ELSE task.id
           tool_name == task.tool
           tool_params == task.tool_params
       IN \E ext \in ExtOutcomes(tool_name) :
            LET out == IF tool_name # NoneVal THEN use_tool(tool_name, tool_params, ext)
                       ELSE ProcessTask(task, ext)
            IN /\ intermediate_results' =
                      DictSet(intermediate_results, task_id, EntryOf(out))
               /\ overwritten' = (overwritten \/ task_id \in DOMAIN intermediate_results)
               /\ status' = [status EXCEPT ![idx] = IF out.ok THEN "SUCCEEDED" ELSE "FAILED"]
               /\ memory' = memory \o out.mem
               /\ persist_failed' = (persist_failed \/ out.persist = "failed")
               /\ last_kw' = tool_params
               /\ pc' = LoopAfter(idx, Len(plan), out).pc
               /\ idx' = LoopAfter(idx, Len(plan), out).idx
               /\ raise_cause' = IF LoopAfter(idx, Len(plan), out).pc = "raised"
                                 THEN "task_failure" ELSE raise_cause
    /\ UNCHANGED <<renderVars, concVars, storeVars>>
    /\ UNCHANGED <<executor, user_id, analysis_needs, response, plan, plan_type,
                   plan0, final_result, subst_raised>>

\* BaseAgent.execute_plan returns the results, line 229; the plan stays
\* with the caller
ExecutePlanReturn ==
    /\ pc = "loop" /\ executor = "base"
    /\ idx > Len(plan)
    /\ final_result' = << [plan |-> plan,
                           execution_results |-> intermediate_results,
                           report_paths |-> NoneVal] >>
    /\ pc' = "done"
    /\ UNCHANGED <<renderVars, concVars, storeVars>>
    /\ UNCHANGED <<executor, user_id, analysis_needs, response, plan, plan_type, plan0,
                   idx, intermediate_results, status, memory, raise_cause, overwritten,
                   persist_failed, subst_raised, last_kw>>

\* ---------------------------------------------------------------- concurrent requests
\* consumption_analysis_router.py lines 221-222 and analyze_by_custom_needs
\* lines 571-612: a new agent, its plan and an empty results dict
Request(i) ==
    /\ frames[i].pc = "idle"
    /\ \E p \in ConcPlans :
        LET tasks == IF p = <<>>
                     THEN DefaultPlan(user_id, StartDate, EndDate, analysis_needs) ELSE p
            h1 == Append(heap, Obj("agent", i, <<>>))
            h2 == Append(h1, Obj("plan", i, tasks))
            c == ContextRef(h2, i)
            h3 == IF c > Len(h2) THEN Append(h2, Obj("context", i, <<>>)) ELSE h2
        IN /\ heap' = h3
           /\ frames' = [frames EXCEPT ![i] =
                  [pc |-> "loop", agent |-> Len(h1), plan |-> Len(h2), ctx |-> c,
                   ledger |-> NoRef, idx |-> 1]]
    /\ UNCHANGED <<runVars, renderVars, storeVars>>

\* the task a request is at
CurrentTask(i) == heap[frames[i].plan].content[frames[i].idx]

\* the parameters of that task after the substitution of lines 624-635
CurrentParams(i) ==
    Substitute(CurrentTask(i).id, CurrentTask(i).tool_params,
               Entries(heap[frames[i].ctx].content)).params

\* the call of the task's tool reaches `await`: the tool is the coroutine
\* function and its arguments bind
Awaits(i) ==
    /\ CurrentTask(i).tool = "fetch_consumption_data"
    /\ SignatureOK(CurrentTask(i).tool, CurrentParams(i))

\* lines 624-657: the heap after the request has run its current task and
\* recorded the outcome in its results dict (and its parameters in the plan)
RecordResult(i, ext) ==
    LET f == frames[i]
        task == CurrentTask(i)
        out == GetattrCall(task.tool, CurrentParams(i), ext)
        h1 == IF task.has_params
              THEN [heap EXCEPT ![f.plan].content[f.idx].tool_params = CurrentParams(i)]
              ELSE heap
    IN [h1 EXCEPT ![f.ctx].content =
            DictSet(@, task.id, [entry |-> EntryOf(out), by |-> i])]

\* line 640: `await getattr(self, tool_name)(**tool_params)` suspends the
\* request until the database answers
Suspend(i) ==
    /\ frames[i].pc = "loop"
    /\ frames[i].idx <= Len(heap[frames[i].plan].content)
    /\ Awaits(i)
    /\ frames' = [frames EXCEPT ![i].pc = "await"]
    /\ UNCHANGED <<heap, runVars, renderVars, storeVars>>

\* the awaited call is over: lines 645-657
Resume(i) ==
    /\ frames[i].pc = "await"
    /\ \E ext \in ConcOutcomes(CurrentTask(i).tool) : heap' = RecordResult(i, ext)
    /\ frames' = [frames EXCEPT ![i].pc = "loop", ![i].idx = @ + 1]
    /\ UNCHANGED <<runVars, renderVars, storeVars>>

\* an iteration of the loop that does not suspend, lines 615-657
RunLocal(i) ==
    /\ frames[i].pc = "loop"
    /\ frames[i].idx <= Len(heap[frames[i].plan].content)
    /\ ~Awaits(i)
    /\ \E ext \in ConcOutcomes(CurrentTask(i).tool) : heap' = RecordResult(i, ext)
    /\ frames' = [frames EXCEPT ![i].idx = @ + 1]
    /\ UNCHANGED <<runVars, renderVars, storeVars>>

\* lines 672-678: the ledger refers to the plan and to the results dict
Respond(i) ==
    /\ frames[i].pc = "loop"
    /\ frames[i].idx > Len(heap[frames[i].plan].content)
    /\ heap' = Append(heap, Obj("ledger", i,
                  [plan |-> frames[i].plan,
                   execution_results |-> frames[i].ctx,
                   report_paths |-> ReportPaths(Entries(heap[frames[i].ctx].content))]))
    /\ frames' = [frames EXCEPT ![i].pc = "done", ![i].ledger = Len(heap) + 1]
    /\ UNCHANGED <<runVars, renderVars, storeVars>>

NextConcurrent ==
    \E i \in Invocations :
        \/ Request(i)
        \/ Suspend(i)
        \/ Resume(i)
        \/ RunLocal(i)
        \/ Respond(i)

\* requests arrive at any time and the event loop runs them in any order
InitConcurrent ==
    /\ executor = "custom"
    /\ user_id = "u1"
    /\ analysis_needs = "weekly trend"
    /\ OrchStart
    /\ mem_file = NoFile
    /\ files = {}
    /\ RenderStart

SpecConcurrent == InitConcurrent /\ [][NextConcurrent]_vars

\* ---------------------------------------------------------------- prompt store
\* BaseAgent.add_prompt_template, lines 55-63
AddPromptTemplate ==
    /\ \E key \in AddKeys, template \in TemplatePool :
        prompts' = DictSet(prompts, key, template)
    /\ UNCHANGED <<fmt_call, memVars, streams, parsed, evloop, runVars, concVars, renderVars>>

\* BaseAgent.format_prompt, lines 77-91
FormatPrompt ==
    /\ \E key \in FormatKeys, supplied \in SuppliedSets :
        fmt_call' = FormatCall("caller", prompts, key, supplied)
    /\ UNCHANGED <<prompts, memVars, streams, parsed, evloop, runVars, concVars, renderVars>>

\* AdvancedConsumptionAgent.plan, lines 172-181: the planning prompt that is
\* handed to invoke_llm
PlanPrompt ==
    /\ fmt_call' = FormatCall("plan", prompts, "task_planning", PlannerNames)
    /\ UNCHANGED <<prompts, memVars, streams, parsed, evloop, runVars, concVars, renderVars>>

NextPrompts ==
    \/ AddPromptTemplate
    \/ FormatPrompt
    \/ PlanPrompt

SpecPrompts == InitRender /\ [][NextPrompts]_vars

\* ---------------------------------------------------------------- memory log
\* BaseAgent.add_memory, lines 28-39
AddMemory ==
    /\ Len(appended) < MaxMemory
    /\ \E entry \in MemoryEntries :
        /\ memory' = Append(memory, entry)
        /\ appended' = Append(appended, entry)
    /\ UNCHANGED <<mem_file, mem_call, runRest, promptVars, streams, parsed, evloop, concVars, renderVars>>

\* BaseAgent.get_memory, lines 41-53
GetMemory ==
    /\ \E has_limit \in BOOLEAN, limit \in 0..(MaxMemory + 1) :
        /\ has_limit \/ limit = 0
        /\ mem_call' = [made |-> TRUE, has_limit |-> has_limit, limit |-> limit,
                        before |-> memory,
                        result |-> get_memory(memory, has_limit, limit)]
    /\ UNCHANGED <<memory, mem_file, appended, runRest, promptVars, streams, parsed, evloop, concVars, renderVars>>

\* BaseAgent.save_memory, lines 258-266
SaveMemory ==
    /\ mem_file' = SavedFile(memory)
    /\ UNCHANGED <<memory, mem_call, appended, runRest, promptVars, streams, parsed, evloop, concVars, renderVars>>

\* BaseAgent.load_memory, lines 268-277
LoadMemory ==
    /\ memory' = load_memory(memory, mem_file)
    /\ UNCHANGED <<mem_file, mem_call, appended, runRest, promptVars, streams, parsed, evloop, concVars, renderVars>>

\* a plan function is called and the LLM answers with the text
ParsePlan ==
    /\ ~parsed.made
    /\ \E text \in ResponseTexts, agent \in {"BaseAgent", "AdvancedConsumptionAgent"} :
        parsed' = [made |-> TRUE, agent |-> agent, text |-> text,
                   result |-> IF agent = "BaseAgent" THEN BasePlan(text)
                              ELSE AdvancedPlan(text)]
    /\ UNCHANGED <<runVars, concVars, renderVars, promptVars, memVars, streams, evloop>>

NextParse == ParsePlan

\* ---------------------------------------------------------------- requests on the event loop
\* the loop's thread takes up a request: router line 222,
\* analyze_by_custom_needs calls self.plan, plan calls invoke_llm
\* (advanced_consumption_agent.py line 181), invoke_llm calls llm.invoke
\* (base_agent.py line 103), an ordinary call the thread stays in
LoopAccept(i) ==
    /\ evloop.pos[i] = "idle" /\ evloop.owner = 0
    /\ evloop' = [evloop EXCEPT !.owner = i, !.pos[i] = "llm_plan"]
    /\ UNCHANGED <<runVars, concVars, renderVars, promptVars, memVars, streams, parsed>>

\* llm.invoke returns: to plan (the loop over the tasks begins) or to the
\* tool that called it (the next task follows)
LlmAnswer(i) ==
    /\ evloop.pos[i] \in {"llm_plan", "llm_tool"}
    /\ IF evloop.pos[i] = "llm_plan"
       THEN \E p \in LoopPlans :
                evloop' = [evloop EXCEPT !.pos[i] = "loop", !.plan[i] = p, !.idx[i] = 1]
       ELSE evloop' = [evloop EXCEPT !.pos[i] = "loop", !.idx[i] = @ + 1]
    /\ UNCHANGED <<runVars, concVars, renderVars, promptVars, memVars, streams, parsed>>

\* lines 637-643: the task's tool is called. fetch_consumption_data is
\* awaited, and its database query gives the thread back to the loop; a
\* tool that calls invoke_llm keeps the thread; any other tool is over
\* within the step
LoopStartTask(i) ==
    /\ evloop.pos[i] = "loop" /\ evloop.owner = i
    /\ evloop.idx[i] <= Len(evloop.plan[i])
    /\ LET tool == evloop.plan[i][evloop.idx[i]]
       IN evloop' =
            CASE tool = "fetch_consumption_data" ->
                    [evloop EXCEPT !.pos[i] = "await_db", !.owner = 0]
              [] tool \in LlmTools -> [evloop EXCEPT !.pos[i] = "llm_tool"]
              [] OTHER -> [evloop EXCEPT !.idx[i] = @ + 1]
    /\ UNCHANGED <<runVars, concVars, renderVars, promptVars, memVars, streams, parsed>>

\* the database answers: the awaiting request is ready to run again
DbAnswer(i) ==
    /\ evloop.pos[i] = "await_db"
    /\ evloop' = [evloop EXCEPT !.pos[i] = "ready"]
    /\ UNCHANGED <<runVars, concVars, renderVars, promptVars, memVars, streams, parsed>>

\* the loop resumes a ready request when its thread is free, lines 645-657
LoopResume(i) ==
    /\ evloop.pos[i] = "ready" /\ evloop.owner = 0
    /\ evloop' = [evloop EXCEPT !.owner = i, !.pos[i] = "loop", !.idx[i] = @ + 1]
    /\ UNCHANGED <<runVars, concVars, renderVars, promptVars, memVars, streams, parsed>>

\* lines 659-678: the request returns and the thread is free
LoopReturn(i) ==
    /\ evloop.pos[i] = "loop" /\ evloop.owner = i
    /\ evloop.idx[i] > Len(evloop.plan[i])
    /\ evloop' = [evloop EXCEPT !.pos[i] = "done", !.owner = 0]
    /\ UNCHANGED <<runVars, concVars, renderVars, promptVars, memVars, streams, parsed>>

NextLoop ==
    \E i \in Invocations :
        \/ LoopAccept(i)
        \/ LlmAnswer(i)
        \/ LoopStartTask(i)
        \/ DbAnswer(i)
        \/ LoopResume(i)
        \/ LoopReturn(i)

SpecLoop == InitConcurrent /\ [][NextLoop]_vars

NextMemory ==
    \/ AddMemory
    \/ GetMemory
    \/ SaveMemory
    \/ LoadMemory

\* the process starts with an empty memory; the file is absent or was left
\* by an earlier process
InitMemory ==
    /\ executor = "custom"
    /\ user_id = "u1"
    /\ analysis_needs = "weekly trend"
    /\ OrchStart
    /\ mem_file \in {NoFile, OldFile}
    /\ files = {}
    /\ RenderStart

SpecMemory == InitMemory /\ [][NextMemory]_vars

SpecParse == InitMemory /\ [][NextParse]_vars

Next ==
    \/ PlanStep
    \/ ExecutePlanCall
    \/ IterateRaise
    \/ RunTask
    \/ Return
    \/ ExecuteTask
    \/ ExecutePlanReturn

Spec == Init /\ [][Next]_vars

\* one orchestration call is a single thread of control: a step that can be
\* taken is taken
SpecFair == Spec /\ WF_vars(Next)

TypeOK ==
    /\ pc \in {"start", "loop", "done", "raised"}
    /\ idx \in 1..(Len(plan) + 1)
    /\ Len(status) = Len(plan)

\* ---------------------------------------------------------------- render calls
\* a call of generate_charts_by_needs(consumptions, analysis_needs)
GenerateChartsByNeeds ==
    /\ calls < MaxCalls
    /\ \E consumptions \in Datasets, needs \in Goals, llm \in Llms :
        LET out == generate_charts_by_needs(consumptions, needs, llm, files, clock)
        IN /\ r_cons' = consumptions
           /\ r_needs' = needs
           /\ r_llm' = llm
           /\ r_code' = IF consumptions = "empty" THEN NoCode ELSE ChartCodeFor(needs, llm)
           /\ r_env' = ExecNamespace(consumptions)
           /\ r_out' = out
           /\ files' = out.files
    /\ r_entry' = "by_needs"
    /\ r_before' = files
    /\ calls' = calls + 1
    /\ UNCHANGED <<clock, r_pc, artifact_log, orchVars>>

\* a call of execute_chart_code(code, consumptions)
ExecuteChartCode ==
    /\ calls < MaxCalls
    /\ \E consumptions \in Datasets,
          code \in LlmCodes \cup {DefaultChartCode(n) : n \in Goals} :
        LET out == execute_chart_code(code, consumptions, files, clock)
        IN /\ r_cons' = consumptions
           /\ r_code' = code
           /\ r_env' = ExecNamespace(consumptions)
           /\ r_out' = out
           /\ files' = out.files
    /\ r_entry' = "execute"
    /\ r_before' = files
    /\ calls' = calls + 1
    /\ UNCHANGED <<clock, r_needs, r_llm, r_pc, artifact_log, orchVars>>

\* a second passes (a call that returns is short against the clock)
Tick ==
    /\ r_pc = "idle"
    /\ clock < MaxClock
    /\ clock' = clock + 1
    /\ UNCHANGED <<files, calls, r_entry, r_cons, r_needs, r_llm, r_code, r_before,
                   r_out, r_env, r_pc, artifact_log, orchVars>>

\* a call of execute_chart_code(code, consumptions) with code that writes
\* text while it runs
ExecuteChartCodeOutput ==
    /\ calls < MaxCalls
    /\ \E consumptions \in Datasets,
          code \in LlmCodes \cup {DefaultChartCode(n) : n \in Goals},
          prints \in SUBSET WriteKinds :
        LET out == execute_chart_code(code, consumptions, files, clock)
        IN /\ r_cons' = consumptions
           /\ r_code' = code
           /\ r_env' = ExecNamespace(consumptions)
           /\ r_out' = out
           /\ files' = out.files
           /\ streams' = CodeOutput(consumptions, prints)
    /\ r_entry' = "execute"
    /\ r_before' = files
    /\ calls' = calls + 1
    /\ UNCHANGED <<clock, r_needs, r_llm, r_pc, artifact_log, runVars, concVars,
                   promptVars, memVars, parsed, evloop>>

NextStreams ==
    \/ ExecuteChartCodeOutput
    \/ Tick

SpecStreams == InitRender /\ [][NextStreams]_vars

NextRender ==
    \/ GenerateChartsByNeeds
    \/ ExecuteChartCode
    \/ Tick

SpecRender == InitRender /\ [][NextRender]_vars

\* ---------------------------------------------------------------- a call in steps
\* chart code whose execution never ends, e.g. `while True: pass`
LoopCode == ChartCode("llm", "none", "", "loop", FALSE)

\* exec(code, env) comes back (by returning or by raising); building the
\* namespace of an empty dataset raises before exec is reached
Returns(code, consumptions) == consumptions = "empty" \/ code.run # "loop"

\* execute_chart_code is called, lines 147-174: up to exec(code, env)
CallExecuteChartCode ==
    /\ r_pc = "idle" /\ calls < MaxCalls
    /\ \E consumptions \in Datasets,
          code \in LlmCodes \cup {DefaultChartCode(n) : n \in Goals} \cup {LoopCode} :
        /\ r_cons' = consumptions
        /\ r_code' = code
        /\ r_env' = ExecNamespace(consumptions)
    /\ r_pc' = "exec"
    /\ r_before' = files
    /\ calls' = calls + 1
    /\ UNCHANGED <<files, clock, r_entry, r_needs, r_llm, r_out, artifact_log, orchVars>>

\* execute_chart_code, lines 174-208: exec is over and the call returns or
\* raises; nothing in the code ends an exec that does not end by itself
ExecReturn ==
    /\ r_pc = "exec"
    /\ Returns(r_code, r_cons)
    /\ LET out == execute_chart_code(r_code, r_cons, files, clock)
       IN /\ r_out' = out
          /\ files' = out.files
    /\ r_entry' = "execute"
    /\ r_pc' = "idle"
    /\ UNCHANGED <<clock, calls, r_cons, r_needs, r_llm, r_code, r_before, r_env,
                   artifact_log, orchVars>>

\* the executed code goes round its loop once more
ExecSpin ==
    /\ r_pc \in {"exec", "exec_body"}
    /\ ~Returns(r_code, r_cons)
    /\ r_pc' = IF r_pc = "exec" THEN "exec_body" ELSE "exec"
    /\ UNCHANGED <<files, clock, calls, r_entry, r_cons, r_needs, r_llm, r_code, r_before,
                   r_out, r_env, artifact_log, orchVars>>

NextSteps ==
    \/ CallExecuteChartCode
    \/ ExecReturn
    \/ ExecSpin
    \/ Tick

\* the interpreter keeps running the call: a step that can be taken is taken
SpecRenderSteps == InitRender /\ [][NextSteps]_vars /\ WF_vars(NextSteps)

\* ---------------------------------------------------------------- artifacts
\* artifact-producing calls of one or several requests, in any order and
\* at any time
MaxRuns == 2

\* ChartGenerator.generate_all_charts: the three charts it saves
AllChartFiles(now) ==
    {<<"category_chart.png", now>>, <<"time_series_chart.png", now>>,
     <<"income_expense_chart.png", now>>}

\* the millisecond part of datetime.now() in generate_report
Millis == {0, 1}
MsStamp(now, ms) == now * 10 + ms

\* generate_report, lines 386-421: the files it writes under
\* consumption_analysis_<user>_<start>_<end>_<time to the millisecond>
ReportFiles(uid, now, ms, ext) ==
    CASE ext = "ok" -> {<<"consumption_analysis_" \o uid \o ".md", MsStamp(now, ms)>>,
                        <<"consumption_analysis_" \o uid \o ".pdf", MsStamp(now, ms)>>}
      [] ext = "mcp_fail" -> {<<"consumption_analysis_" \o uid \o ".md", MsStamp(now, ms)>>}
      [] OTHER -> {}

LogEntry(call, wrote) == [call |-> call, wrote |-> wrote]

\* AdvancedConsumptionAgent.generate_charts
GenerateAllCharts ==
    /\ Len(artifact_log) < MaxRuns
    /\ files' = files \cup AllChartFiles(clock)
    /\ artifact_log' = Append(artifact_log, LogEntry("generate_charts", AllChartFiles(clock)))
    /\ UNCHANGED <<clock, calls, r_entry, r_cons, r_needs, r_llm, r_code, r_before,
                   r_out, r_env, r_pc, orchVars>>

\* DynamicChartGenerator.generate_charts_by_needs, without an LLM or with
\* one whose code names and saves its chart
RenderCharts ==
    /\ Len(artifact_log) < MaxRuns
    /\ \E consumptions \in {"empty", "records"}, needs \in Goals,
          llm \in {[state |-> "unavailable", code |-> NoCode],
                   [state |-> "answers",
                    code |-> ChartCode("llm", "literal", "custom.png", "save", FALSE)]} :
        LET out == generate_charts_by_needs(consumptions, needs, llm, files, clock)
        IN /\ files' = out.files
           /\ artifact_log' = Append(artifact_log, LogEntry("render", out.wrote))
    /\ UNCHANGED <<clock, calls, r_entry, r_cons, r_needs, r_llm, r_code, r_before,
                   r_out, r_env, r_pc, orchVars>>

\* AdvancedConsumptionAgent.generate_report
GenerateReport ==
    /\ Len(artifact_log) < MaxRuns
    /\ \E uid \in UserIds, ms \in Millis, ext \in {"ok", "mcp_fail", "md_fail"} :
        /\ files' = files \cup ReportFiles(uid, clock, ms, ext)
        /\ artifact_log' =
              Append(artifact_log, LogEntry("generate_report", ReportFiles(uid, clock, ms, ext)))
    /\ UNCHANGED <<clock, calls, r_entry, r_cons, r_needs, r_llm, r_code, r_before,
                   r_out, r_env, r_pc, orchVars>>

NextArtifacts ==
    \/ GenerateAllCharts
    \/ RenderCharts
    \/ GenerateReport
    \/ Tick

SpecArtifacts == InitRender /\ [][NextArtifacts]_vars

\* ---------------------------------------------------------------- properties
Terminal == {"SUCCEEDED", "FAILED"}
Range(f) == {f[x] : x \in DOMAIN f}
Running == pc \in {"loop", "done"}

AllTerminal == \A k \in 1..Len(plan) : status[k] \in Terminal

\* the tasks before the loop position have run, the others have not yet
AttemptedInOrder ==
    /\ (plan_type = "list" /\ pc # "start") => pc # "raised"
    /\ (pc = "loop" /\ plan_type = "list") =>
          \A k \in 1..Len(plan) : (k < idx) <=> (status[k] \in Terminal)
    /\ pc = "done" => AllTerminal

\* C1: for every plan that is a list of task records and every choice of
\* the tool calls that raise, the run attempts every task in plan order (a
\* failed task never keeps a later one from running), never raises, and
\* eventually returns with every task SUCCEEDED or FAILED.
C1_EveryTaskAttempted ==
    /\ []AttemptedInOrder
    /\ (pc = "loop" /\ plan_type = "list") ~> (pc = "done" /\ AllTerminal)

\* a returned run in which a task failed and the task after it succeeded
C1_Witness ==
    /\ pc = "done"
    /\ \E k \in 1..(Len(plan) - 1) : status[k] = "FAILED" /\ status[k + 1] = "SUCCEEDED"

\* C2: a render call (execute_chart_code, generate_charts_by_needs) never
\* raises to its caller and returns the path of a file that exists.
C2_RenderReturnsExistingFile ==
    r_entry # "none" => (~r_out.raised /\ r_out.path \in files)

CanonicalIds == <<"1", "2", "3", "4">>
CanonicalTools ==
    <<"fetch_consumption_data", "generate_charts", "analyze_data", "generate_report">>

\* C3: when the LLM response does not parse, the plan the loop executes is
\* the 4-task fallback, ids "1".."4" with tools fetch, charts, analyze,
\* report, and it is a function of user id, dates and request text only.
C3_FallbackPlan ==
    (executor = "custom" /\ response.shape = "unparsable" /\ Running) =>
        /\ Len(plan0) = 4
        /\ \A k \in 1..4 : plan0[k].id = CanonicalIds[k] /\ plan0[k].tool = CanonicalTools[k]
        /\ plan0 = DefaultPlan(user_id, StartDate, EndDate, analysis_needs)

\* the fallback plan ran to the end after an unparsable response
C3_Witness ==
    /\ executor = "custom" /\ response.shape = "unparsable" /\ pc = "done"
    /\ Len(status) = 4

\* the value a reference to task id stands for: the result of a task that
\* succeeded, the default otherwise
Expected(id, default) ==
    IF id \in DOMAIN intermediate_results /\ intermediate_results[id].success
    THEN intermediate_results[id].result ELSE default

\* C4: the parameters of a task that consumes an earlier task's output get
\* that task's value when it succeeded and the empty list / empty string
\* when it failed or has no result, and building them never raises.
C4_SubstitutionDefaults ==
    /\ ~subst_raised
    /\ (executor = "custom" /\ Running /\ plan_type = "list" /\ idx > 1) =>
          LET t == plan0[idx - 1]
          IN /\ t.id \in {"2", "3"} => last_kw["consumptions"] = Expected("1", EmptyList)
             /\ t.id = "4" =>
                   /\ last_kw["analysis_result"] = Expected("3", EmptyStr)
                   /\ last_kw["chart_paths"] = Expected("2", EmptyList)

\* task "2" has just run after task "1" failed, and got the empty list
C4_Witness ==
    /\ executor = "custom" /\ Running /\ plan_type = "list" /\ idx > 1
    /\ plan0[idx - 1].id = "2"
    /\ "1" \in DOMAIN intermediate_results /\ ~intermediate_results["1"].success
    /\ last_kw["consumptions"] = EmptyList

\* the id under which a task is recorded
RecordedId(t) == IF executor = "base" /\ t.id = NoneVal THEN "unknown" ELSE t.id

\* C5: a task whose tool names a capability that is not registered is
\* recorded as failed with the "not registered" error (checked on the task
\* that has just run), and the loop goes on.
C5_UnregisteredToolFails ==
    (Running /\ plan_type = "list" /\ idx > 1) =>
        LET t == plan0[idx - 1]
        IN (t.tool # NoneVal /\ t.tool \notin RegisteredTools) =>
              /\ status[idx - 1] = "FAILED"
              /\ intermediate_results[RecordedId(t)] = FailureEntry(ErrNotRegistered)

PlanIds == {RecordedId(plan0[k]) : k \in 1..Len(plan0)}

\* C6: task ids of the plan are unique, no recorded result is overwritten,
\* and after the run there is exactly one result per task, keyed by its id.
C6_OneResultPerTask ==
    /\ ~overwritten
    /\ pc = "done" =>
          /\ Cardinality(PlanIds) = Len(plan0)
          /\ DOMAIN intermediate_results = PlanIds
          /\ Cardinality(DOMAIN intermediate_results) = Len(plan0)

\* C7: the plan of the returned ledger is the plan as the planner made it.
C7_PlanUnchanged ==
    pc = "done" => final_result[1].plan = plan0

C9_LayeredFallback ==
    r_entry = "by_needs" =>
        /\ ("template" \in Range(r_out.layers)) <=>
              ("llm" \in Range(r_out.layers)
               /\ (r_out.raised \/ "autosave" \in Range(r_out.layers)))
        /\ ("placeholder" \in Range(r_out.layers) \/ "no_data" \in Range(r_out.layers)) =>
              (r_cons = "empty" \/ "autosave" \in Range(r_out.layers))

\* C9 (amended): for a non-empty dataset the canned template is the code
\* that is executed exactly when no model-authored code was obtained (no
\* LLM, or its call raised); it runs instead of the model-authored code,
\* never after it. The placeholder is rendered only for an empty dataset
\* or when neither the executed code nor the automatic save left a file at
\* the chart path.
C9_TemplateReplacesLayerOne ==
    r_entry = "by_needs" =>
        /\ ("template" \in Range(r_out.layers)) <=>
              (r_cons # "empty" /\ r_llm.state # "answers")
        /\ ~("template" \in Range(r_out.layers) /\ "llm" \in Range(r_out.layers))
        /\ "no_data" \in Range(r_out.layers) => r_cons = "empty"
        /\ "placeholder" \in Range(r_out.layers) =>
              ("autosave" \in Range(r_out.layers) /\ r_out.path \notin r_before)

\* the template ran because the LLM call raised
C9_Witness ==
    /\ r_entry = "by_needs" /\ r_llm.state = "raises" /\ r_cons = "records"
    /\ r_out.layers = <<"template", "autosave">>

\* C10: for an empty dataset, whatever the request text,
\* generate_charts_by_needs returns the path of the "no data" placeholder,
\* which it wrote, and executes no chart code.
C10_EmptyDatasetPlaceholder ==
    (r_entry = "by_needs" /\ r_cons = "empty") =>
        /\ ~r_out.raised
        /\ r_out.path[1] = "chart_no_data.png"
        /\ r_out.path \in files
        /\ files = r_before \cup {r_out.path}
        /\ r_out.layers = <<"no_data">>
        /\ r_code = NoCode

\* a call with an empty dataset and an LLM that answers with code
C10_Witness ==
    /\ r_entry = "by_needs" /\ r_cons = "empty" /\ r_llm.state = "answers"
    /\ r_out.path \in files

\* the files a render call added to output_dir
Written == files \ r_before

\* C11: a render call that returns has written exactly one file: the set
\* of files of output_dir has grown by exactly one, whichever layer made it.
C11_ExactlyOneFile ==
    (r_entry # "none" /\ ~r_out.raised) => Cardinality(Written) = 1

\* C12: the path a render call returns, and every file the call wrote,
\* lies inside output_dir, whatever file name the code assigns.
C12_ConfinedToOutputDir ==
    (r_entry # "none" /\ ~r_out.raised) =>
        /\ InOutputDir(r_out.path)
        /\ \A f \in Written : InOutputDir(f)

\* C13: no name of the namespace the chart code runs in gives access to
\* the file system outside output_dir, to the network, to processes or to
\* arbitrary imports.
C13_NoAmbientAccess ==
    \A name \in r_env : Grants(name) = {}

\* C14: a render call terminates for every chart code, code that loops
\* forever included: a call that has started eventually returns or raises.
C14_RenderTerminates ==
    (r_pc = "exec") ~> (r_pc = "idle")

\* C15: two artifact-producing calls never write the same path, also when
\* both happen within the same second: a later call writes new paths only.
C15_NoPathWrittenTwice ==
    \A i, j \in 1..Len(artifact_log) :
        i < j => artifact_log[i].wrote \cap artifact_log[j].wrote = {}

\* C16: when the LLM response is a JSON object with a `tasks` array, the
\* plan the run executes is that array, exactly as if the array itself had
\* been the response, and the run does not raise because of the shape.
C16_TasksObjectAccepted ==
    (executor = "custom" /\ response.shape = "object_tasks" /\ pc # "start") =>
        LET p == PlanOf(ArrayResponse(response.tasks))
        IN /\ plan_type = "list"
           /\ plan0 = IF PlanIsFalsy(p)
                      THEN DefaultPlan(user_id, StartDate, EndDate, analysis_needs)
                      ELSE p.tasks
           /\ pc # "raised"

\* C17: a task whose tool is empty is run by sending its description to
\* the LLM and is recorded with the LLM's text as its result (or with the
\* gateway's error when the LLM call itself raises); it is never recorded
\* as a tool that could not be found.
C17_EmptyToolReasoned ==
    (Running /\ plan_type = "list" /\ idx > 1) =>
        LET t == plan0[idx - 1]
        IN t.tool = NoneVal =>
              intermediate_results[RecordedId(t)] \in
                  {SuccessEntry(Text), FailureEntry(ErrExternal)}

\* a task with this id ran last under the id and succeeded
Succeeded(id) == id \in DOMAIN intermediate_results /\ intermediate_results[id].success

\* the outputs the artifacts part of the returned ledger holds
Artifacts ==
    IF final_result[1].report_paths = EmptyDict THEN {} ELSE {final_result[1].report_paths}

\* C18: the artifacts part of the returned ledger holds the output of the
\* report task "4" and the output of the chart task "2" whenever they
\* succeeded, and no output of a task that failed.
C18_ArtifactsReportAndChart ==
    (pc = "done" /\ executor = "custom") =>
        /\ Succeeded("4") => intermediate_results["4"].result \in Artifacts
        /\ Succeeded("2") => intermediate_results["2"].result \in Artifacts
        /\ \A v \in Artifacts :
              \E id \in {"2", "4"} : Succeeded(id) /\ intermediate_results[id].result = v

\* C18 (amended): the artifacts part of the returned ledger (report_paths)
\* is the output of task "4" when that task succeeded and the empty
\* mapping otherwise; the output of the chart task "2" is not part of it
\* and stays in the execution results under its id.
C18_ArtifactsReportOnly ==
    (pc = "done" /\ executor = "custom") =>
        /\ final_result[1].report_paths = Expected("4", EmptyDict)
        /\ Succeeded("2") =>
              /\ final_result[1].execution_results["2"].result = intermediate_results["2"].result
              /\ intermediate_results["2"].result \notin Artifacts

\* a returned run whose chart task and report task both succeeded
C18_Witness ==
    /\ pc = "done" /\ executor = "custom"
    /\ Succeeded("2") /\ Succeeded("4")
    /\ final_result[1].report_paths = ReportOk

\* C19: every task recorded as succeeded has appended a memory entry: after
\* a run the memory holds at least one entry per succeeded task.
C19_MemoryPerSucceededTask ==
    (pc = "done" /\ executor = "custom") =>
        Len(memory) >= Cardinality({k \in 1..Len(status) : status[k] = "SUCCEEDED"})

\* the plan, results dict and ledger a request refers to
OwnRefs(i) ==
    ({frames[i].plan, frames[i].ctx, frames[i].ledger}
     \cup (IF frames[i].ledger = NoRef THEN {}
           ELSE {heap[frames[i].ledger].content.plan,
                 heap[frames[i].ledger].content.execution_results})) \ {NoRef}

\* no object is referred to by two requests, and every entry of a request's
\* results dict was recorded by that request
NoSharedState ==
    \A i \in Invocations :
        /\ \A r \in OwnRefs(i) : heap[r].by = i
        /\ \A j \in Invocations \ {i} : OwnRefs(i) \cap OwnRefs(j) = {}
        /\ frames[i].ctx # NoRef =>
              \A id \in DOMAIN heap[frames[i].ctx].content :
                  heap[frames[i].ctx].content[id].by = i

\* a step of one request leaves the objects of the other requests as they are
OthersUntouched ==
    \A j \in Invocations :
        frames'[j] = frames[j] => \A r \in OwnRefs(j) : heap'[r] = heap[r]

\* C20: concurrent requests share no plan, results dict or ledger: under
\* every interleaving, a result recorded by one request never appears in
\* and never changes the results dict or the ledger of another.
C20_NoSharingAcrossRequests ==
    []NoSharedState /\ [][OthersUntouched]_vars

\* request 1 is suspended at its await while request 2 has recorded a
\* result in a results dict of its own
C20_Witness ==
    /\ frames[1].pc = "await" /\ frames[2].pc = "loop"
    /\ frames[2].idx > 1
    /\ frames[1].ctx # frames[2].ctx
    /\ DOMAIN heap[frames[2].ctx].content # {}

\* C21: format_prompt raises for a key that was never registered and for
\* a template that refers to a name that was not supplied, and returns a
\* string in every other case; the planner's prompt is always a string.
C21_FormatRaisesOrString ==
    fmt_call.caller # "none" =>
        /\ ~fmt_call.registered => fmt_call.result = "KeyError"
        /\ (fmt_call.registered /\ ~(fmt_call.template.names \subseteq fmt_call.supplied)) =>
              fmt_call.result = "KeyError"
        /\ (fmt_call.registered /\ fmt_call.template.names \subseteq fmt_call.supplied) =>
              fmt_call.result = "str"
        /\ fmt_call.caller = "plan" => fmt_call.result = "str"

\* C21 (amended): format_prompt returns None, without raising, for a key
\* that is not registered or whose template is empty; for a registered,
\* non-empty template it raises KeyError when a name the template refers
\* to was not supplied and returns a string otherwise. The planner's
\* prompt is a string as long as "task_planning" holds the template it got
\* at construction.
C21_FormatNoneKeyErrorOrString ==
    fmt_call.caller # "none" =>
        /\ (~fmt_call.registered \/ fmt_call.template.empty) => fmt_call.result = "None"
        /\ (fmt_call.registered /\ ~fmt_call.template.empty) =>
              fmt_call.result =
                  IF fmt_call.template.names \subseteq fmt_call.supplied
                  THEN "str" ELSE "KeyError"
        /\ (fmt_call.caller = "plan"
            /\ fmt_call.template = ConstructedPrompts["task_planning"]) =>
              fmt_call.result = "str"

\* format_prompt was called with a key nobody registered and returned None
C21_Witness ==
    /\ fmt_call.caller = "caller" /\ fmt_call.key = "never_registered"
    /\ ~fmt_call.registered /\ fmt_call.result = "None"

\* ---------------------------------------------------------------- C22
RECURSIVE IsSubsequence(_, _)
IsSubsequence(xs, ys) ==
    IF xs = <<>> THEN TRUE
    ELSE IF ys = <<>> THEN FALSE
    ELSE IF Head(xs) = Head(ys) THEN IsSubsequence(Tail(xs), Tail(ys))
    ELSE IsSubsequence(xs, Tail(ys))

Min(a, b) == IF a <= b THEN a ELSE b

\* C22: the memory log is append-only: after any sequence of add_memory,
\* get_memory, save_memory and load_memory in one process every entry
\* appended earlier is still in the log, in append order, and get_memory(n)
\* returns the last min(n, length) entries for every n >= 0
C22_MemoryAppendOnly ==
    /\ IsSubsequence(appended, memory)
    /\ (mem_call.made /\ mem_call.has_limit) =>
            /\ Len(mem_call.result) = Min(mem_call.limit, Len(mem_call.before))
            /\ mem_call.result = LastN(mem_call.before, Len(mem_call.result))

\* ---------------------------------------------------------------- C23
\* C23: everything the executed chart code writes to stdout or stderr is
\* captured, none of it reaches the process-level streams during or after
\* the call, and the captured text is attached to the memory log
C23_OutputCapturedAndLogged ==
    (r_entry = "execute" /\ streams.written # {}) =>
        /\ streams.written \cap Redirected \subseteq streams.captured
        /\ streams.process \cap Redirected = {}
        /\ streams.captured # {} =>
                \E i \in DOMAIN memory : memory[i] = "chart_code_output"

\* ---------------------------------------------------------------- C24
\* C24: when the LLM response parses as JSON but is neither an array of
\* task records nor an object with a tasks array (a string, a number, an
\* array of non-records), the planner yields the fallback plan and the run
\* completes without raising
C24_NonPlanJsonFallsBack ==
    (executor = "custom" /\ pc # "start"
     /\ response.shape \in {"scalar", "array_of_scalars"}) =>
        /\ plan0 = DefaultPlan(user_id, StartDate, EndDate, analysis_needs)
        /\ pc # "raised"

\* ---------------------------------------------------------------- C25
\* C25: plan extracts the JSON plan from surrounding text: for a response
\* that is a valid JSON array (or object) of tasks preceded and followed
\* by other text, the plan is that task list, not the fallback
C25_PlanExtractedFromText ==
    (parsed.made /\ parsed.text.prefix # "" /\ parsed.text.suffix # "") =>
        parsed.result = [type |-> "list", tasks |-> parsed.text.tasks]

\* ---------------------------------------------------------------- C26
\* the keywords a request text contains
Keywords(needs) ==
    CASE needs = "compare amounts by leibie" -> {"leibie"}
      [] needs = "spending by fenlei" -> {"fenlei"}
      [] needs = "fenbu of dining" -> {"fenbu"}
      [] OTHER -> {}

\* the canned template served the latest generate_charts_by_needs call
TemplateServed == r_entry = "by_needs" /\ r_cons # "empty" /\ r_llm.state # "answers"

\* C26 as stated: a request with a category keyword or a distribution
\* keyword selects the category-breakdown template, every other request
\* the time-trend template
C26_CategoryOrDistributionKeyword ==
    TemplateServed =>
        r_code.base = IF Keywords(r_needs) \cap {"leibie", "fenlei", "fenbu"} # {}
                      THEN "chart_category_distribution.png"
                      ELSE "chart_spending_trend.png"

\* C26, amended: the two category keywords select the category-breakdown
\* template; every other request, one with a distribution keyword
\* included, selects the time-trend template
C26_CategoryKeywordOnly ==
    TemplateServed =>
        /\ r_code.origin = "template"
        /\ r_code.base = IF Keywords(r_needs) \cap {"leibie", "fenlei"} # {}
                         THEN "chart_category_distribution.png"
                         ELSE "chart_spending_trend.png"
        /\ r_code.pie = (Keywords(r_needs) \cap {"leibie", "fenlei"} # {})

C26_Witness ==
    /\ TemplateServed
    /\ r_needs = "fenbu of dining"
    /\ r_code.base = "chart_spending_trend.png"

\* ---------------------------------------------------------------- C27
\* C27: when the code holds an explicit chart_filename assignment, the path
\* a render call returns is output_dir joined with the assigned file name
\* and is the file the code saved; otherwise the path carries the
\* synthesized, time-stamped default name
C27_FilenameResolution ==
    (r_entry = "execute" /\ ~r_out.raised) =>
        IF r_code.assign \in {"literal", "fstring"}
        THEN /\ r_out.path[1] = r_code.base
             /\ r_code.run = "save" => r_out.path \in r_out.wrote
        ELSE r_out.path[1] = "dynamic_chart.png"

\* ---------------------------------------------------------------- C28
\* C28: the LLM call (of the planner and of every LLM-backed tool) and the
\* data retrieval call are suspension points: while a request waits on one
\* of them, another request in flight that only needs the loop's thread can
\* take its step
C28_SuspensionPoints ==
    \A i, j \in Invocations :
        (i # j /\ evloop.pos[i] \in {"llm_plan", "llm_tool", "await_db"}
         /\ evloop.owner \in {0, i} /\ evloop.pos[j] \in {"idle", "ready"}) =>
            ENABLED (LoopAccept(j) \/ LoopResume(j))

\* ---------------------------------------------------------------- C29
\* C29: the file at the path execute_chart_code returns was written during
\* that call: a file an earlier call left at the path is never the result
\* of a call whose code produced no file
C29_ReturnedFileIsFresh ==
    (r_entry = "execute" /\ ~r_out.raised) => SavedAs(r_out.path) \in r_out.wrote

\* ---------------------------------------------------------------- C30
\* C30: a task is recorded with success = True only if its tool call
\* returned without raising and, for a report, the report was written: no
\* task whose report could not be persisted is recorded as succeeded
C30_SuccessOnlyIfDone ==
    \A id \in DOMAIN intermediate_results :
        intermediate_results[id].success => intermediate_results[id].result # ReportNone

====
